---- MODULE Spec2Model ----
(***************************************************************************)
(* Model of the sensitive-word detector: SecurityDetector (the Facade,     *)
(* security_detector.py) and APIDetector (the remote moderation adapter,   *)
(* api_detector.py).                                                       *)
(*                                                                         *)
(* Strings are sequences of one-character strings.  A text argument is a   *)
(* record [none, s]: none = TRUE is Python's None, otherwise s is the      *)
(* string.  A confidence is an exact fraction [num, den] (den > 0).        *)
(***************************************************************************)
EXTENDS Integers, Sequences, FiniteSets, TLC

(* ------------------------------------------------------------------ *)
(* Bounds of the model                                                 *)
(* ------------------------------------------------------------------ *)
MaxLexicon == 2
MaxPatterns == 3

(* ------------------------------------------------------------------ *)
(* Inputs                                                              *)
(* ------------------------------------------------------------------ *)
\* terms a caller adds or removes (the empty term included)
Words == { <<>>, <<"a">>, <<"A">>, <<"b">>, <<"a", "b">> }

\* the lines of the lexicon sources handed to the constructor, before
\* strip(): blank and comment lines, padded, repeated and mixed-case terms
LexiconLines ==
  { <<>>,
    << <<" ">>, <<"#", "a">> >>,
    << <<" ", "a", " ">> >>,
    << <<"A">>, <<"A">> >>,
    << <<"a">>, <<"A">> >>,
    << <<"a", "b">>, <<>>, <<"b">> >> }

\* the filler character occurs in no lexicon term
Pad(n) == [i \in 1..n |-> "x"]

Str(s) == [none |-> FALSE, s |-> s]
None == [none |-> TRUE, s |-> <<>>]

\* a text of 80 characters in which the terms "a" and "ab" match in five
\* spellings (a, A, ab, Ab, aB) of 8 characters in all: density 1/10
FiveSpellings == <<"a", "A", "a", "b", "A", "b", "a", "B">> \o Pad(72)

\* texts handed to detect: None, the empty and the blank text, short texts,
\* and texts of 10 and 20 characters (densities 1/10, 1/20 and 2/20)
TextInputs ==
  { None, Str(<<>>), Str(<<" ">>), Str(<<"x">>), Str(<<"a">>), Str(<<"A">>),
    Str(<<"a", "A">>), Str(<<"a", "b">>),
    Str(<<"a">> \o Pad(9)), Str(<<"a">> \o Pad(19)),
    Str(<<"a", "A">> \o Pad(18)) }

\* with remote mode off: the terms added or removed, and the texts handed
\* to detect (those above, a text in which "aa" occurs behind an
\* overlapping match, texts of 9, 11, 19, 21 and 40 characters around the
\* densities 1/10 and 1/20, and the text of 80)
LocalWords == Words \cup { <<"a", "a">> }

LocalTexts ==
  TextInputs
  \cup { Str(<<"A", "a", "a">>), Str(<<"a">> \o Pad(8)), Str(<<"a">> \o Pad(10)),
         Str(<<"a">> \o Pad(18)), Str(<<"a">> \o Pad(20)),
         Str(<<"a", "b">> \o Pad(18)), Str(<<"a", "b">> \o Pad(38)),
         Str(FiveSpellings) }

(* ------------------------------------------------------------------ *)
(* Fractions                                                           *)
(* ------------------------------------------------------------------ *)
Frac(n, d) == [num |-> n, den |-> d]
FracEq(p, q) == p.num * q.den = q.num * p.den
FracLeq(p, q) == p.num * q.den <= q.num * p.den
FracMin(p, q) == IF FracLeq(p, q) THEN p ELSE q
FracAdd(p, q) == Frac(p.num * q.den + q.num * p.den, p.den * q.den)
FracMul(p, q) == Frac(p.num * q.num, p.den * q.den)

(* ------------------------------------------------------------------ *)
(* Strings                                                             *)
(* ------------------------------------------------------------------ *)
Lower(c) == CASE c = "A" -> "a" [] c = "B" -> "b" [] c = "X" -> "x" [] OTHER -> c
Upper(c) == CASE c = "a" -> "A" [] c = "b" -> "B" [] c = "x" -> "X" [] OTHER -> c

\* str.upper()
UpperStr(s) == [i \in 1..Len(s) |-> Upper(s[i])]

IsSpace(c) == c = " "

RECURSIVE LStrip(_)
LStrip(s) == IF s # <<>> /\ IsSpace(Head(s)) THEN LStrip(Tail(s)) ELSE s

RECURSIVE RStrip(_)
RStrip(s) ==
  IF s # <<>> /\ IsSpace(s[Len(s)]) THEN RStrip(SubSeq(s, 1, Len(s) - 1)) ELSE s

\* str.strip()
Strip(s) == RStrip(LStrip(s))

\* a pattern compiled from re.escape(word) with re.IGNORECASE matches at i
MatchAt(word, s, i) ==
  /\ i + Len(word) - 1 <= Len(s)
  /\ \A k \in 1..Len(word) : Lower(s[i + k - 1]) = Lower(word[k])

\* pattern.findall(text): the matched substrings, scanned left to right
\* without overlap, as a set
RECURSIVE FindAll(_, _, _)
FindAll(word, s, i) ==
  IF i + Len(word) - 1 > Len(s) THEN {}
  ELSE IF MatchAt(word, s, i)
       THEN {SubSeq(s, i, i + Len(word) - 1)} \cup FindAll(word, s, i + Len(word))
       ELSE FindAll(word, s, i + 1)

RECURSIVE SumLen(_)
SumLen(S) ==
  IF S = {} THEN 0
  ELSE LET w == CHOOSE w \in S : TRUE IN Len(w) + SumLen(S \ {w})

(* ------------------------------------------------------------------ *)
(* Verdicts                                                            *)
(* ------------------------------------------------------------------ *)
\* a DetectionResult; method is details["detection_method"] ("absent" when
\* details has no such key), note the annotation details carries
Verdict(safe, words, risk, conf, method, note) ==
  [raised |-> FALSE, is_safe |-> safe, sensitive_words |-> words,
   risk_level |-> risk, confidence |-> conf, method |-> method, note |-> note]

\* an exception leaving the call instead of a result
Raised ==
  [raised |-> TRUE, is_safe |-> FALSE, sensitive_words |-> {},
   risk_level |-> "none", confidence |-> Frac(0, 1), method |-> "absent",
   note |-> "exception"]

\* no verdict was produced (the detector was not run)
NoVerdict ==
  [raised |-> FALSE, is_safe |-> TRUE, sensitive_words |-> {},
   risk_level |-> "none", confidence |-> Frac(0, 1), method |-> "absent",
   note |-> "not_run"]

(* ------------------------------------------------------------------ *)
(* Risk scorer and local matcher                                       *)
(* ------------------------------------------------------------------ *)
\* _calculate_risk_level without the cap min(0.95, ...) of the high tier
CalculateRiskLevel_NoCap(s, found) ==
  IF found = {} THEN <<"safe", Frac(1, 1)>>
  ELSE
    LET total_chars == Len(s)
        sensitive_chars == SumLen(found)
        density == IF total_chars > 0 THEN Frac(sensitive_chars, total_chars)
                   ELSE Frac(0, 1)
        count == Cardinality(found)
    IN IF count >= 5 \/ ~FracLeq(density, Frac(1, 10))
       THEN <<"high", FracAdd(Frac(7, 10), FracMul(density, Frac(2, 1)))>>
       ELSE IF count >= 2 \/ ~FracLeq(density, Frac(5, 100))
       THEN <<"medium", FracMin(Frac(85, 100),
                                FracAdd(Frac(6, 10), FracMul(density, Frac(3, 1))))>>
       ELSE <<"low", FracMin(Frac(75, 100),
                             FracAdd(Frac(5, 10), FracMul(density, Frac(4, 1))))>>

\* _calculate_risk_level testing the medium tier before the high tier
CalculateRiskLevel_MediumFirst(s, found) ==
  IF found = {} THEN <<"safe", Frac(1, 1)>>
  ELSE
    LET total_chars == Len(s)
        sensitive_chars == SumLen(found)
        density == IF total_chars > 0 THEN Frac(sensitive_chars, total_chars)
                   ELSE Frac(0, 1)
        count == Cardinality(found)
    IN IF count >= 2 \/ ~FracLeq(density, Frac(5, 100))
       THEN <<"medium", FracMin(Frac(85, 100),
                                FracAdd(Frac(6, 10), FracMul(density, Frac(3, 1))))>>
       ELSE IF count >= 5 \/ ~FracLeq(density, Frac(1, 10))
       THEN <<"high", FracMin(Frac(95, 100),
                              FracAdd(Frac(7, 10), FracMul(density, Frac(2, 1))))>>
       ELSE <<"low", FracMin(Frac(75, 100),
                             FracAdd(Frac(5, 10), FracMul(density, Frac(4, 1))))>>

\* _calculate_risk_level with the slope 1 instead of 2 in the high tier
CalculateRiskLevel_FlatHigh(s, found) ==
  IF found = {} THEN <<"safe", Frac(1, 1)>>
  ELSE
    LET total_chars == Len(s)
        sensitive_chars == SumLen(found)
        density == IF total_chars > 0 THEN Frac(sensitive_chars, total_chars)
                   ELSE Frac(0, 1)
        count == Cardinality(found)
    IN IF count >= 5 \/ ~FracLeq(density, Frac(1, 10))
       THEN <<"high", FracMin(Frac(95, 100),
                              FracAdd(Frac(7, 10), FracMul(density, Frac(1, 1))))>>
       ELSE IF count >= 2 \/ ~FracLeq(density, Frac(5, 100))
       THEN <<"medium", FracMin(Frac(85, 100),
                                FracAdd(Frac(6, 10), FracMul(density, Frac(3, 1))))>>
       ELSE <<"low", FracMin(Frac(75, 100),
                             FracAdd(Frac(5, 10), FracMul(density, Frac(4, 1))))>>

\* _calculate_risk_level: <<risk_level, confidence>>; density is
\* SumLen(found) / Len(s)
CalculateRiskLevel(s, found) ==
  IF found = {} THEN <<"safe", Frac(1, 1)>>
  ELSE
    LET total_chars == Len(s)
        sensitive_chars == SumLen(found)
        density == IF total_chars > 0 THEN Frac(sensitive_chars, total_chars)
                   ELSE Frac(0, 1)
        count == Cardinality(found)
    IN IF count >= 5 \/ ~FracLeq(density, Frac(1, 10))
       THEN <<"high", FracMin(Frac(95, 100),
                              FracAdd(Frac(7, 10), FracMul(density, Frac(2, 1))))>>
       ELSE IF count >= 2 \/ ~FracLeq(density, Frac(5, 100))
       THEN <<"medium", FracMin(Frac(85, 100),
                                FracAdd(Frac(6, 10), FracMul(density, Frac(3, 1))))>>
       ELSE <<"low", FracMin(Frac(75, 100),
                             FracAdd(Frac(5, 10), FracMul(density, Frac(4, 1))))>>

\* the loop of _local_detect followed by list(set(found_words))
FoundWords(patterns, s) ==
  UNION { FindAll(patterns[i], s, 1) : i \in DOMAIN patterns }

\* _local_detect calling a text safe unless its risk level is high
LocalDetect_SafeBelowHigh(patterns, text) ==
  IF text.none THEN Raised
  ELSE
    LET found_words == FoundWords(patterns, text.s)
        rc == CalculateRiskLevel(text.s, found_words)
    IN Verdict(rc[1] # "high", found_words, rc[1], rc[2],
               "pattern_matching", "none")

\* _local_detect; on None, findall (or len(text) with no pattern) raises
LocalDetect(patterns, text) ==
  IF text.none THEN Raised
  ELSE
    LET found_words == FoundWords(patterns, text.s)
        rc == CalculateRiskLevel(text.s, found_words)
    IN Verdict(found_words = {}, found_words, rc[1], rc[2],
               "pattern_matching", "none")

(* ------------------------------------------------------------------ *)
(* Remote moderation adapter                                           *)
(* ------------------------------------------------------------------ *)
\* what the token endpoint answers to the credential exchange
TokenOutcomes == {"token", "empty_token", "rejected", "failure"}

\* _fetch_token: the access_token the adapter holds afterwards
FetchToken(outcome) ==
  CASE outcome = "token" -> "valid"
    [] outcome = "empty_token" -> "empty"
    [] OTHER -> "none"

\* APIDetector.is_available: access_token is not None
IsAvailable(token) == token # "none"

\* what a moderation request comes back with.  kind: "transport" (_request
\* returns None), "unparsable" (json.loads raises), "not_object" (JSON that
\* is no object), "error" (an object with error_code), "ok" (an object
\* without).  ctype is conclusionType (0: the key is missing), data the
\* "data" entry.
Response(kind, ctype, data) == [kind |-> kind, ctype |-> ctype, data |-> data]

NotSent == Response("not_sent", 0, "missing")

Outcomes ==
  { Response(k, 0, "missing") : k \in {"transport", "unparsable", "not_object", "error"} }
  \cup { Response("ok", c, "missing") : c \in 0..4 }
  \cup { Response("ok", 3, "entries"), Response("ok", 3, "number") }

\* what the moderation request of a direct call of the adapter comes back
\* with: the responses above, a code outside 1..4, and violation entries
\* beside another code than 3
AdapterOutcomes ==
  Outcomes
  \cup { Response("ok", 5, "missing") }
  \cup { Response("ok", c, "entries") : c \in {0, 1, 2, 4} }

\* a failed remote call blocking the text instead of letting it pass
Neutral_FailClosed == Verdict(FALSE, {}, "unknown", Frac(0, 1), "absent", "error")

\* the verdict of the adapter when it has no token or the call fails
Neutral == Verdict(TRUE, {}, "unknown", Frac(0, 1), "absent", "error")

\* _parse_api_result taking an uncertain conclusion (code 2) for unsafe
ParseApiResult_UncertainUnsafe(r) ==
  IF r.kind = "not_object" THEN Neutral
  ELSE IF r.kind = "error" THEN Neutral
  ELSE
    LET conclusion_type == IF r.ctype = 0 THEN 1 ELSE r.ctype
        base == CASE conclusion_type = 1 -> <<TRUE, "safe", Frac(90, 100)>>
                  [] conclusion_type = 2 -> <<FALSE, "low", Frac(60, 100)>>
                  [] conclusion_type = 3 -> <<FALSE, "high", Frac(95, 100)>>
                  [] OTHER -> <<TRUE, "unknown", Frac(0, 1)>>
    IN IF r.data = "number" THEN Neutral
       ELSE IF r.data = "entries" /\ conclusion_type = 3
       THEN Verdict(base[1], {}, base[2],
                    FracMin(Frac(98, 100), FracAdd(base[3], Frac(3, 100))),
                    "api", "violations")
       ELSE Verdict(base[1], {}, base[2], base[3], "api",
                    IF r.data = "entries" THEN "violations" ELSE "none")

\* _parse_api_result raising the confidence of code 3 whether or not
\* violation entries are present
ParseApiResult_AlwaysNudge(r) ==
  IF r.kind = "not_object" THEN Neutral
  ELSE IF r.kind = "error" THEN Neutral
  ELSE
    LET conclusion_type == IF r.ctype = 0 THEN 1 ELSE r.ctype
        base == CASE conclusion_type = 1 -> <<TRUE, "safe", Frac(90, 100)>>
                  [] conclusion_type = 2 -> <<TRUE, "low", Frac(60, 100)>>
                  [] conclusion_type = 3 -> <<FALSE, "high", Frac(95, 100)>>
                  [] OTHER -> <<TRUE, "unknown", Frac(0, 1)>>
    IN IF r.data = "number" THEN Neutral
       ELSE IF conclusion_type = 3
       THEN Verdict(base[1], {}, base[2],
                    FracMin(Frac(98, 100), FracAdd(base[3], Frac(3, 100))),
                    "api", IF r.data = "entries" THEN "violations" ELSE "none")
       ELSE Verdict(base[1], {}, base[2], base[3], "api",
                    IF r.data = "entries" THEN "violations" ELSE "none")

\* _parse_api_result
ParseApiResult(r) ==
  IF r.kind = "not_object" THEN Neutral
  ELSE IF r.kind = "error" THEN Neutral
  ELSE
    LET conclusion_type == IF r.ctype = 0 THEN 1 ELSE r.ctype
        base == CASE conclusion_type = 1 -> <<TRUE, "safe", Frac(90, 100)>>
                  [] conclusion_type = 2 -> <<TRUE, "low", Frac(60, 100)>>
                  [] conclusion_type = 3 -> <<FALSE, "high", Frac(95, 100)>>
                  [] OTHER -> <<TRUE, "unknown", Frac(0, 1)>>
    IN IF r.data = "number" THEN Neutral
       ELSE IF r.data = "entries" /\ conclusion_type = 3
       THEN Verdict(base[1], {}, base[2],
                    FracMin(Frac(98, 100), FracAdd(base[3], Frac(3, 100))),
                    "api", "violations")
       ELSE Verdict(base[1], {}, base[2], base[3], "api",
                    IF r.data = "entries" THEN "violations" ELSE "none")

\* whether APIDetector.detect sends a moderation request
ApiSends(token, text) ==
  /\ token = "valid"
  /\ ~text.none
  /\ Strip(text.s) # <<>>

\* APIDetector.detect letting a failed request raise
ApiDetect_TransportRaises(token, text, response) ==
  IF token # "valid" THEN Neutral
  ELSE IF text.none \/ Strip(text.s) = <<>>
  THEN Verdict(TRUE, {}, "safe", Frac(1, 1), "absent", "reason_empty")
  ELSE IF response.kind = "transport" THEN Raised
  ELSE IF response.kind = "unparsable" THEN Neutral
  ELSE ParseApiResult(response)

\* APIDetector.detect testing for an empty text before testing the token
ApiDetect_EmptyFirst(token, text, response) ==
  IF text.none \/ Strip(text.s) = <<>>
  THEN Verdict(TRUE, {}, "safe", Frac(1, 1), "absent", "reason_empty")
  ELSE IF token # "valid" THEN Neutral
  ELSE IF response.kind = "transport" THEN Neutral
  ELSE IF response.kind = "unparsable" THEN Neutral
  ELSE ParseApiResult(response)

\* APIDetector.detect
ApiDetect(token, text, response) ==
  IF token # "valid" THEN Neutral
  ELSE IF text.none \/ Strip(text.s) = <<>>
  THEN Verdict(TRUE, {}, "safe", Frac(1, 1), "absent", "reason_empty")
  ELSE IF response.kind = "transport" THEN Neutral
  ELSE IF response.kind = "unparsable" THEN Neutral
  ELSE ParseApiResult(response)

(* ------------------------------------------------------------------ *)
(* Fusion policy and Facade.detect                                     *)
(* ------------------------------------------------------------------ *)
\* DUAL_DETECTION_CONFIG
LocalWeight == Frac(3, 10)
ApiWeight == Frac(7, 10)

\* _combine_results calling the text unsafe only when both detectors do
CombineResults_BothUnsafe(local_result, api_result) ==
  LET combined_confidence ==
        FracAdd(FracMul(local_result.confidence, LocalWeight),
                FracMul(api_result.confidence, ApiWeight))
      unsafe == ~local_result.is_safe /\ ~api_result.is_safe
      final_risk_level ==
        IF unsafe
        THEN IF local_result.risk_level = "high" \/ api_result.risk_level = "high"
             THEN "high" ELSE "medium"
        ELSE "safe"
  IN Verdict(~unsafe, local_result.sensitive_words, final_risk_level,
             combined_confidence, "dual_detection", "none")

\* _combine_results passing the local risk level on for an unsafe text
CombineResults_KeepsLocalRisk(local_result, api_result) ==
  LET combined_confidence ==
        FracAdd(FracMul(local_result.confidence, LocalWeight),
                FracMul(api_result.confidence, ApiWeight))
      unsafe == ~local_result.is_safe \/ ~api_result.is_safe
      final_risk_level ==
        IF unsafe
        THEN IF api_result.risk_level = "high"
             THEN "high" ELSE local_result.risk_level
        ELSE "safe"
  IN Verdict(~unsafe, local_result.sensitive_words, final_risk_level,
             combined_confidence, "dual_detection", "none")

\* _combine_results
CombineResults(local_result, api_result) ==
  LET combined_confidence ==
        FracAdd(FracMul(local_result.confidence, LocalWeight),
                FracMul(api_result.confidence, ApiWeight))
      unsafe == ~local_result.is_safe \/ ~api_result.is_safe
      final_risk_level ==
        IF unsafe
        THEN IF local_result.risk_level = "high" \/ api_result.risk_level = "high"
             THEN "high" ELSE "medium"
        ELSE "safe"
  IN Verdict(~unsafe, local_result.sensitive_words, final_risk_level,
             combined_confidence, "dual_detection", "none")

\* the result of detect for an empty or None text
EmptyResult == Verdict(TRUE, {}, "safe", Frac(1, 1), "absent", "reason_empty")

\* what one call of detect did: the result returned (or the exception
\* raised), the two sub-verdicts, whether the lexicon was scanned, the
\* number of moderation requests sent and the response received
Trace(result, local, remote, scanned, requests, response) ==
  [result |-> result, local |-> local, remote |-> remote,
   scanned |-> scanned, requests |-> requests, response |-> response]

\* detect testing only for None: the empty string goes through both detectors
Detect_OnlyNoneGuard(patterns, enable, adapter, text, response) ==
  IF text.none
  THEN Trace(EmptyResult, NoVerdict, NoVerdict, FALSE, 0, NotSent)
  ELSE
    LET local_result == LocalDetect(patterns, text) IN
    IF enable /\ adapter # "absent" /\ IsAvailable(adapter)
    THEN LET sends == ApiSends(adapter, text)
             received == IF sends THEN response ELSE NotSent
             api_result == ApiDetect(adapter, text, received)
         IN Trace(CombineResults(local_result, api_result), local_result,
                  api_result, TRUE, IF sends THEN 1 ELSE 0, received)
    ELSE Trace(local_result, local_result, NoVerdict, TRUE, 0, NotSent)

\* detect not asking the adapter whether it is available
Detect_NoAvailableTest(patterns, enable, adapter, text, response) ==
  IF text.none \/ text.s = <<>>
  THEN Trace(EmptyResult, NoVerdict, NoVerdict, FALSE, 0, NotSent)
  ELSE
    LET local_result == LocalDetect(patterns, text) IN
    IF enable /\ adapter # "absent"
    THEN LET sends == ApiSends(adapter, text)
             received == IF sends THEN response ELSE NotSent
             api_result == ApiDetect(adapter, text, received)
         IN Trace(CombineResults(local_result, api_result), local_result,
                  api_result, TRUE, IF sends THEN 1 ELSE 0, received)
    ELSE Trace(local_result, local_result, NoVerdict, TRUE, 0, NotSent)

\* detect without the test for an empty text: None reaches the local matcher
Detect_NoEmptyGuard(patterns, enable, adapter, text, response) ==
  LET local_result == LocalDetect(patterns, text) IN
  IF local_result.raised
  THEN Trace(Raised, NoVerdict, NoVerdict, TRUE, 0, NotSent)
  ELSE IF enable /\ adapter # "absent" /\ IsAvailable(adapter)
  THEN LET sends == ApiSends(adapter, text)
           received == IF sends THEN response ELSE NotSent
           api_result == ApiDetect(adapter, text, received)
       IN Trace(CombineResults(local_result, api_result), local_result,
                api_result, TRUE, IF sends THEN 1 ELSE 0, received)
  ELSE Trace(local_result, local_result, NoVerdict, TRUE, 0, NotSent)

\* detect sending the moderation request a second time when it failed at
\* the network level
Detect_RetriesOnFailure(patterns, enable, adapter, text, response) ==
  IF text.none \/ text.s = <<>>
  THEN Trace(EmptyResult, NoVerdict, NoVerdict, FALSE, 0, NotSent)
  ELSE
    LET local_result == LocalDetect(patterns, text) IN
    IF local_result.raised
    THEN Trace(Raised, NoVerdict, NoVerdict, TRUE, 0, NotSent)
    ELSE IF enable /\ adapter # "absent" /\ IsAvailable(adapter)
    THEN LET sends == ApiSends(adapter, text)
             received == IF sends THEN response ELSE NotSent
             api_result == ApiDetect(adapter, text, received)
             requests == IF ~sends THEN 0
                         ELSE IF received.kind = "transport" THEN 2 ELSE 1
         IN IF api_result.raised
            THEN Trace([local_result EXCEPT !.note = "api_error"], local_result,
                       NoVerdict, TRUE, requests, received)
            ELSE Trace(CombineResults(local_result, api_result), local_result,
                       api_result, TRUE, requests, received)
    ELSE Trace(local_result, local_result, NoVerdict, TRUE, 0, NotSent)

\* SecurityDetector.detect.  adapter is "absent" (api_detector is None) or
\* the access_token of the adapter held.
Detect(patterns, enable, adapter, text, response) ==
  IF text.none \/ text.s = <<>>
  THEN Trace(EmptyResult, NoVerdict, NoVerdict, FALSE, 0, NotSent)
  ELSE
    LET local_result == LocalDetect(patterns, text) IN
    IF local_result.raised
    THEN Trace(Raised, NoVerdict, NoVerdict, TRUE, 0, NotSent)
    ELSE IF enable /\ adapter # "absent" /\ IsAvailable(adapter)
    THEN LET sends == ApiSends(adapter, text)
             received == IF sends THEN response ELSE NotSent
             api_result == ApiDetect(adapter, text, received)
         IN IF api_result.raised
            THEN Trace([local_result EXCEPT !.note = "api_error"], local_result,
                       NoVerdict, TRUE, IF sends THEN 1 ELSE 0, received)
            ELSE Trace(CombineResults(local_result, api_result), local_result,
                       api_result, TRUE, IF sends THEN 1 ELSE 0, received)
    ELSE Trace(local_result, local_result, NoVerdict, TRUE, 0, NotSent)

(* ------------------------------------------------------------------ *)
(* State                                                               *)
(* ------------------------------------------------------------------ *)
VARIABLES
  facade,                \* "absent", "live", or "load_error" (the constructor raised)
  sensitive_words,       \* self.sensitive_words
  word_patterns,         \* self.word_patterns: the terms the patterns were compiled from
  enable_api_detection,  \* self.enable_api_detection
  api_detector,          \* "absent" (None) or the adapter's access_token
  last                   \* the last call made on the Facade and what it did

vars == <<facade, sensitive_words, word_patterns, enable_api_detection,
          api_detector, last>>

NoTrace == Trace(NoVerdict, NoVerdict, NoVerdict, FALSE, 0, NotSent)

\* a call on the Facade as its caller sees it: its name, its arguments (text,
\* word, enable, whether the lexicon source is readable), what the token
\* endpoint answered if it was asked (auth), the number of credential
\* exchanges the call performed, the lexicon size before the call, whether
\* the call raised and, for detect, its trace.  For add and remove,
\* patterns_before is word_patterns before the call; for a remove(w) made
\* right after an add(w), follows_add is set and patterns_before_add is
\* word_patterns before that add.  For batch_detect, texts is the argument
\* and results the traces of the sequence returned.  returned is the value
\* a query returned; snapshot is the list get_sensitive_words returned, as
\* its caller holds it, and aliased whether that list is the lexicon's own
\* object.
NoCall ==
  [op |-> "none", text |-> None, word |-> <<>>, enable |-> FALSE,
   readable |-> TRUE, auth |-> "not_asked", exchanges |-> 0, size_before |-> 0,
   raised |-> FALSE, trace |-> NoTrace, patterns_before |-> <<>>,
   follows_add |-> FALSE, patterns_before_add |-> <<>>, texts |-> <<>>,
   results |-> <<>>, returned |-> "none", snapshot |-> <<>>,
   aliased |-> FALSE]

\* a lexicon source: unreadable or missing, or its lines
Files ==
  { [readable |-> FALSE, lines |-> <<>>] }
  \cup { [readable |-> TRUE, lines |-> l] : l \in LexiconLines }

\* the terms _load_sensitive_words keeps, in file order
RECURSIVE LoadWords(_)
LoadWords(lines) ==
  IF lines = <<>> THEN <<>>
  ELSE LET word == Strip(Head(lines))
       IN IF word # <<>> /\ Head(word) # "#"
          THEN <<word>> \o LoadWords(Tail(lines))
          ELSE LoadWords(Tail(lines))

Range(f) == { f[i] : i \in DOMAIN f }

\* the orders in which iterating a set may yield its elements
Orders(S) ==
  { p \in [1..Cardinality(S) -> S] : \A i, j \in DOMAIN p : i # j => p[i] # p[j] }

\* SecurityDetector.is_api_available
IsApiAvailable == api_detector # "absent" /\ IsAvailable(api_detector)

Init ==
  /\ facade = "absent"
  /\ sensitive_words = {}
  /\ word_patterns = <<>>
  /\ enable_api_detection = FALSE
  /\ api_detector = "absent"
  /\ last = NoCall

\* SecurityDetector.__init__; outcome is the token endpoint's answer, asked
\* only when the source loads and enable is set
Construct(file, enable, outcome) ==
  /\ facade = "absent"
  /\ IF ~file.readable
     THEN /\ outcome = "not_asked"
          /\ facade' = "load_error"
          /\ last' = [NoCall EXCEPT !.op = "init", !.enable = enable,
                                    !.readable = FALSE, !.raised = TRUE]
          /\ UNCHANGED <<sensitive_words, word_patterns, enable_api_detection,
                         api_detector>>
     ELSE /\ outcome = "not_asked" <=> ~enable
          /\ facade' = "live"
          /\ word_patterns' = LoadWords(file.lines)
          /\ sensitive_words' = Range(LoadWords(file.lines))
          /\ enable_api_detection' = enable
          /\ api_detector' = IF enable /\ IsAvailable(FetchToken(outcome))
                             THEN FetchToken(outcome) ELSE "absent"
          /\ last' = [NoCall EXCEPT !.op = "init", !.enable = enable,
                                    !.auth = outcome,
                                    !.exchanges = IF enable THEN 1 ELSE 0]

\* whether detect(text) reaches the moderation request
DetectSends(enable, adapter, text) ==
  /\ ~text.none /\ text.s # <<>>
  /\ enable /\ adapter # "absent" /\ IsAvailable(adapter)
  /\ ApiSends(adapter, text)

\* SecurityDetector.detect; response is what the moderation request, if one
\* is sent, comes back with
DetectText(text, response) ==
  /\ facade = "live"
  /\ response = NotSent <=> ~DetectSends(enable_api_detection, api_detector, text)
  /\ LET trace == Detect(word_patterns, enable_api_detection, api_detector,
                         text, response)
     IN last' = [NoCall EXCEPT !.op = "detect", !.text = text,
                               !.size_before = Cardinality(sensitive_words),
                               !.raised = trace.result.raised, !.trace = trace]
  /\ UNCHANGED <<facade, sensitive_words, word_patterns, enable_api_detection,
                 api_detector>>

\* the lists handed to batch_detect: the empty list, a list starting with an
\* empty text, and a list with None between two texts
Batches ==
  { <<>>,
    <<Str(<<>>), Str(<<"a">>)>>,
    <<Str(<<"x">>), None, Str(<<"a", "A">>)>> }

\* what the moderation requests of a batch come back with
BatchOutcomes ==
  { Response("transport", 0, "missing"), Response("ok", 1, "missing"),
    Response("ok", 3, "missing") }

\* the loop of batch_detect: results.append(self.detect(text)) for each text
\* in turn; an exception raised by detect would leave the loop
RECURSIVE BatchLoop(_, _, _, _, _)
BatchLoop(patterns, enable, adapter, texts, responses) ==
  IF texts = <<>> THEN <<>>
  ELSE LET trace == Detect(patterns, enable, adapter, Head(texts), Head(responses))
       IN IF trace.result.raised THEN <<trace>>
          ELSE <<trace>> \o BatchLoop(patterns, enable, adapter,
                                      Tail(texts), Tail(responses))

\* the items of texts before the first None or empty one
UpToEmpty(texts) ==
  LET empties == { i \in DOMAIN texts : texts[i].none \/ texts[i].s = <<>> }
  IN IF empties = {} THEN Len(texts)
     ELSE (CHOOSE i \in empties : \A j \in empties : i <= j) - 1

\* batch_detect giving up at the first None or empty item
BatchDetect_StopsAtEmpty(texts, responses) ==
  /\ facade = "live"
  /\ \A i \in DOMAIN texts :
       responses[i] = NotSent
       <=> ~DetectSends(enable_api_detection, api_detector, texts[i])
  /\ LET results == BatchLoop(word_patterns, enable_api_detection, api_detector,
                              SubSeq(texts, 1, UpToEmpty(texts)),
                              SubSeq(responses, 1, UpToEmpty(texts)))
     IN last' = [NoCall EXCEPT !.op = "batch", !.texts = texts,
                               !.size_before = Cardinality(sensitive_words),
                               !.raised = \E i \in DOMAIN results :
                                            results[i].result.raised,
                               !.results = results]
  /\ UNCHANGED <<facade, sensitive_words, word_patterns, enable_api_detection,
                 api_detector>>

\* SecurityDetector.batch_detect; responses[i] is what the moderation request
\* of the i-th item, if one is sent, comes back with
BatchDetect(texts, responses) ==
  /\ facade = "live"
  /\ \A i \in DOMAIN texts :
       responses[i] = NotSent
       <=> ~DetectSends(enable_api_detection, api_detector, texts[i])
  /\ LET results == BatchLoop(word_patterns, enable_api_detection, api_detector,
                              texts, responses)
     IN last' = [NoCall EXCEPT !.op = "batch", !.texts = texts,
                               !.size_before = Cardinality(sensitive_words),
                               !.raised = \E i \in DOMAIN results :
                                            results[i].result.raised,
                               !.results = results]
  /\ UNCHANGED <<facade, sensitive_words, word_patterns, enable_api_detection,
                 api_detector>>

\* the texts and moderation responses of the is_safe_for_llm calls
LlmTexts == { None, Str(<<"x">>), Str(<<"a">>) }

\* SecurityDetector.is_safe_for_llm: detect(text).is_safe
IsSafeForLlm(text, response) ==
  /\ facade = "live"
  /\ response = NotSent <=> ~DetectSends(enable_api_detection, api_detector, text)
  /\ LET trace == Detect(word_patterns, enable_api_detection, api_detector,
                         text, response)
     IN last' = [NoCall EXCEPT !.op = "is_safe_for_llm", !.text = text,
                               !.size_before = Cardinality(sensitive_words),
                               !.raised = trace.result.raised, !.trace = trace,
                               !.returned = IF trace.result.raised THEN "none"
                                            ELSE IF trace.result.is_safe
                                            THEN "true" ELSE "false"]
  /\ UNCHANGED <<facade, sensitive_words, word_patterns, enable_api_detection,
                 api_detector>>

\* get_sensitive_words handing out the lexicon's own object
GetSensitiveWords_ReturnsAlias ==
  /\ facade = "live"
  /\ \E snapshot \in Orders(sensitive_words) :
       last' = [NoCall EXCEPT !.op = "get_sensitive_words",
                              !.size_before = Cardinality(sensitive_words),
                              !.snapshot = snapshot, !.aliased = TRUE]
  /\ UNCHANGED <<facade, sensitive_words, word_patterns, enable_api_detection,
                 api_detector>>

\* SecurityDetector.get_sensitive_words: list(self.sensitive_words), a new
\* list in the order the set iterates
GetSensitiveWords ==
  /\ facade = "live"
  /\ \E snapshot \in Orders(sensitive_words) :
       last' = [NoCall EXCEPT !.op = "get_sensitive_words",
                              !.size_before = Cardinality(sensitive_words),
                              !.snapshot = snapshot]
  /\ UNCHANGED <<facade, sensitive_words, word_patterns, enable_api_detection,
                 api_detector>>

\* the caller of get_sensitive_words empties the list it was given; the
\* lexicon follows only if the list is the lexicon's own object
ClearSnapshot ==
  /\ facade = "live"
  /\ last.op = "get_sensitive_words"
  /\ last' = [last EXCEPT !.op = "clear_snapshot", !.snapshot = <<>>]
  /\ IF last.aliased
     THEN sensitive_words' = {}
     ELSE UNCHANGED sensitive_words
  /\ UNCHANGED <<facade, word_patterns, enable_api_detection, api_detector>>

\* SecurityDetector.is_api_available and get_detection_method
Query(name) ==
  /\ facade = "live"
  /\ last' = [NoCall EXCEPT
               !.op = name,
               !.size_before = Cardinality(sensitive_words),
               !.returned =
                  IF name = "is_api_available"
                  THEN IF api_detector # "absent" /\ IsAvailable(api_detector)
                       THEN "true" ELSE "false"
                  ELSE IF enable_api_detection /\ api_detector # "absent"
                          /\ IsAvailable(api_detector)
                       THEN "dual" ELSE "local"]
  /\ UNCHANGED <<facade, sensitive_words, word_patterns, enable_api_detection,
                 api_detector>>

\* add_sensitive_word without the test "word not in self.sensitive_words"
AddSensitiveWord_NoMembershipTest(word) ==
  /\ facade = "live"
  /\ Len(word_patterns) < MaxPatterns
  /\ Cardinality(sensitive_words) < MaxLexicon \/ word \in sensitive_words
       \/ word = <<>>
  /\ IF word # <<>>
     THEN /\ sensitive_words' = sensitive_words \cup {word}
          /\ word_patterns' = Append(word_patterns, word)
     ELSE UNCHANGED <<sensitive_words, word_patterns>>
  /\ last' = [NoCall EXCEPT !.op = "add", !.word = word,
                            !.size_before = Cardinality(sensitive_words),
                            !.patterns_before = word_patterns]
  /\ UNCHANGED <<facade, enable_api_detection, api_detector>>

\* add_sensitive_word without the test that the word is not empty
AddSensitiveWord_AcceptsEmpty(word) ==
  /\ facade = "live"
  /\ Len(word_patterns) < MaxPatterns
  /\ Cardinality(sensitive_words) < MaxLexicon \/ word \in sensitive_words
       \/ word = <<>>
  /\ IF word \notin sensitive_words
     THEN /\ sensitive_words' = sensitive_words \cup {word}
          /\ word_patterns' = Append(word_patterns, word)
     ELSE UNCHANGED <<sensitive_words, word_patterns>>
  /\ last' = [NoCall EXCEPT !.op = "add", !.word = word,
                            !.size_before = Cardinality(sensitive_words),
                            !.patterns_before = word_patterns]
  /\ UNCHANGED <<facade, enable_api_detection, api_detector>>

\* SecurityDetector.add_sensitive_word
AddSensitiveWord(word) ==
  /\ facade = "live"
  /\ Len(word_patterns) < MaxPatterns
  /\ Cardinality(sensitive_words) < MaxLexicon \/ word \in sensitive_words
       \/ word = <<>>
  /\ IF word # <<>> /\ word \notin sensitive_words
     THEN /\ sensitive_words' = sensitive_words \cup {word}
          /\ word_patterns' = Append(word_patterns, word)
     ELSE UNCHANGED <<sensitive_words, word_patterns>>
  /\ last' = [NoCall EXCEPT !.op = "add", !.word = word,
                            !.size_before = Cardinality(sensitive_words),
                            !.patterns_before = word_patterns]
  /\ UNCHANGED <<facade, enable_api_detection, api_detector>>

\* remove_sensitive_word discarding the term without recompiling the patterns
RemoveSensitiveWord_KeepsPatterns(word) ==
  /\ facade = "live"
  /\ IF word \in sensitive_words
     THEN /\ sensitive_words' = sensitive_words \ {word}
          /\ UNCHANGED word_patterns
     ELSE UNCHANGED <<sensitive_words, word_patterns>>
  /\ last' = [NoCall EXCEPT !.op = "remove", !.word = word,
                            !.size_before = Cardinality(sensitive_words),
                            !.patterns_before = word_patterns,
                            !.follows_add = (last.op = "add" /\ last.word = word),
                            !.patterns_before_add =
                               IF last.op = "add" /\ last.word = word
                               THEN last.patterns_before ELSE <<>>]
  /\ UNCHANGED <<facade, enable_api_detection, api_detector>>

\* SecurityDetector.remove_sensitive_word
RemoveSensitiveWord(word) ==
  /\ facade = "live"
  /\ IF word \in sensitive_words
     THEN /\ sensitive_words' = sensitive_words \ {word}
          /\ word_patterns' \in Orders(sensitive_words \ {word})
     ELSE UNCHANGED <<sensitive_words, word_patterns>>
  /\ last' = [NoCall EXCEPT !.op = "remove", !.word = word,
                            !.size_before = Cardinality(sensitive_words),
                            !.patterns_before = word_patterns,
                            !.follows_add = (last.op = "add" /\ last.word = word),
                            !.patterns_before_add =
                               IF last.op = "add" /\ last.word = word
                               THEN last.patterns_before ELSE <<>>]
  /\ UNCHANGED <<facade, enable_api_detection, api_detector>>

\* set_api_detection constructing a new adapter on every enable
SetApiDetection_AlwaysConstruct(enable, outcome) ==
  /\ facade = "live"
  /\ enable_api_detection' = enable
  /\ IF enable
     THEN /\ outcome # "not_asked"
          /\ api_detector' = FetchToken(outcome)
     ELSE /\ outcome = "not_asked"
          /\ UNCHANGED api_detector
  /\ last' = [NoCall EXCEPT !.op = "set_api", !.enable = enable,
                            !.auth = outcome,
                            !.size_before = Cardinality(sensitive_words),
                            !.exchanges = IF outcome = "not_asked" THEN 0 ELSE 1]
  /\ UNCHANGED <<facade, sensitive_words, word_patterns>>

\* set_api_detection dropping the adapter when the remote mode is turned off
SetApiDetection_DropsAdapter(enable, outcome) ==
  /\ facade = "live"
  /\ enable_api_detection' = enable
  /\ IF enable /\ api_detector = "absent"
     THEN /\ outcome # "not_asked"
          /\ api_detector' = FetchToken(outcome)
     ELSE /\ outcome = "not_asked"
          /\ api_detector' = IF enable THEN api_detector ELSE "absent"
  /\ last' = [NoCall EXCEPT !.op = "set_api", !.enable = enable,
                            !.auth = outcome,
                            !.size_before = Cardinality(sensitive_words),
                            !.exchanges = IF outcome = "not_asked" THEN 0 ELSE 1]
  /\ UNCHANGED <<facade, sensitive_words, word_patterns>>

\* set_api_detection constructing a new adapter when the one held is
\* unavailable
SetApiDetection_RetriesFailed(enable, outcome) ==
  /\ facade = "live"
  /\ enable_api_detection' = enable
  /\ IF enable /\ (api_detector = "absent" \/ ~IsAvailable(api_detector))
     THEN /\ outcome # "not_asked"
          /\ api_detector' = FetchToken(outcome)
     ELSE /\ outcome = "not_asked"
          /\ UNCHANGED api_detector
  /\ last' = [NoCall EXCEPT !.op = "set_api", !.enable = enable,
                            !.auth = outcome,
                            !.size_before = Cardinality(sensitive_words),
                            !.exchanges = IF outcome = "not_asked" THEN 0 ELSE 1]
  /\ UNCHANGED <<facade, sensitive_words, word_patterns>>

\* SecurityDetector.set_api_detection; outcome is the token endpoint's
\* answer, asked only when an adapter is constructed
SetApiDetection(enable, outcome) ==
  /\ facade = "live"
  /\ enable_api_detection' = enable
  /\ IF enable /\ api_detector = "absent"
     THEN /\ outcome # "not_asked"
          /\ api_detector' = FetchToken(outcome)
     ELSE /\ outcome = "not_asked"
          /\ UNCHANGED api_detector
  /\ last' = [NoCall EXCEPT !.op = "set_api", !.enable = enable,
                            !.auth = outcome,
                            !.size_before = Cardinality(sensitive_words),
                            !.exchanges = IF outcome = "not_asked" THEN 0 ELSE 1]
  /\ UNCHANGED <<facade, sensitive_words, word_patterns>>

Next ==
  \/ \E file \in Files, enable \in BOOLEAN,
        outcome \in TokenOutcomes \cup {"not_asked"} :
       Construct(file, enable, outcome)
  \/ \E text \in TextInputs, response \in Outcomes \cup {NotSent} :
       DetectText(text, response)
  \/ \E texts \in Batches :
       \E responses \in [1..Len(texts) -> BatchOutcomes \cup {NotSent}] :
         BatchDetect(texts, responses)
  \/ \E text \in LlmTexts, response \in BatchOutcomes \cup {NotSent} :
       IsSafeForLlm(text, response)
  \/ GetSensitiveWords
  \/ ClearSnapshot
  \/ \E name \in {"is_api_available", "get_detection_method"} : Query(name)
  \/ \E word \in Words : AddSensitiveWord(word)
  \/ \E word \in Words : RemoveSensitiveWord(word)
  \/ \E enable \in BOOLEAN, outcome \in TokenOutcomes \cup {"not_asked"} :
       SetApiDetection(enable, outcome)

Spec == Init /\ [][Next]_vars

\* the Facade as __init__ leaves it for a readable source with remote mode
\* off, and its calls with the larger sets of terms and texts
InitLocal ==
  \E file \in Files :
    /\ file.readable
    /\ facade = "live"
    /\ word_patterns = LoadWords(file.lines)
    /\ sensitive_words = Range(LoadWords(file.lines))
    /\ enable_api_detection = FALSE
    /\ api_detector = "absent"
    /\ last = [NoCall EXCEPT !.op = "init"]

NextLocal ==
  \/ \E text \in LocalTexts : DetectText(text, NotSent)
  \/ \E word \in LocalWords : AddSensitiveWord(word)
  \/ \E word \in LocalWords : RemoveSensitiveWord(word)

SpecLocal == InitLocal /\ [][NextLocal]_vars

\* the arguments handed to _calculate_risk_level on its own: texts of 1 to
\* 45 characters, and 1 to 6 distinct matched strings, the first of them of
\* 1 to 3 characters and the others of one
ScorerTexts == { Pad(n) : n \in 1..45 }

ScorerFound ==
  { { [i \in 1..first |-> "a"] }
    \cup { <<c>> : c \in others }
    : first \in 1..3,
      others \in { {}, {"b"}, {"b", "c"}, {"b", "c", "d"},
                   {"b", "c", "d", "e"}, {"b", "c", "d", "e", "f"} } }

\* SecurityDetector._calculate_risk_level called with a text and the
\* strings matched
Score(s, found) ==
  /\ LET rc == CalculateRiskLevel(s, found)
         v == Verdict(found = {}, found, rc[1], rc[2], "pattern_matching", "none")
     IN last' = [NoCall EXCEPT !.op = "score", !.text = Str(s),
                               !.trace = Trace(v, v, NoVerdict, FALSE, 0, NotSent)]
  /\ UNCHANGED <<facade, sensitive_words, word_patterns, enable_api_detection,
                 api_detector>>

NextScorer == \E s \in ScorerTexts, found \in ScorerFound : Score(s, found)

\* the risk scorer applied to one pair of arguments after another
SpecScorer == Init /\ [][NextScorer]_vars

\* APIDetector.__init__ called by the adapter's own user: the instance held
\* afterwards has the token the exchange gave, or none
AdapterConstruct(outcome) ==
  /\ api_detector' = FetchToken(outcome)
  /\ last' = [NoCall EXCEPT !.op = "api_init", !.auth = outcome,
                            !.exchanges = 1]
  /\ UNCHANGED <<facade, sensitive_words, word_patterns, enable_api_detection>>

\* APIDetector.detect asking for a token again when it holds none
AdapterDetect_Reauthenticates(text, response) ==
  /\ api_detector # "absent"
  /\ response = NotSent <=> ~ApiSends(api_detector, text)
  /\ api_detector' = IF api_detector = "none" THEN "valid" ELSE api_detector
  /\ LET api_result == ApiDetect(api_detector, text, response)
     IN last' = [NoCall EXCEPT
                   !.op = "api_detect", !.text = text,
                   !.raised = api_result.raised,
                   !.exchanges = IF api_detector = "none" THEN 1 ELSE 0,
                   !.trace = Trace(api_result, NoVerdict, api_result, FALSE,
                                   IF ApiSends(api_detector, text) THEN 1 ELSE 0,
                                   response)]
  /\ UNCHANGED <<facade, sensitive_words, word_patterns, enable_api_detection>>

\* APIDetector.detect called directly on the instance held
AdapterDetect(text, response) ==
  /\ api_detector # "absent"
  /\ response = NotSent <=> ~ApiSends(api_detector, text)
  /\ LET api_result == ApiDetect(api_detector, text, response)
     IN last' = [NoCall EXCEPT
                   !.op = "api_detect", !.text = text,
                   !.raised = api_result.raised,
                   !.trace = Trace(api_result, NoVerdict, api_result, FALSE,
                                   IF ApiSends(api_detector, text) THEN 1 ELSE 0,
                                   response)]
  /\ UNCHANGED <<facade, sensitive_words, word_patterns, enable_api_detection,
                 api_detector>>

NextAdapter ==
  \/ \E outcome \in TokenOutcomes : AdapterConstruct(outcome)
  \/ \E text \in TextInputs, response \in AdapterOutcomes \cup {NotSent} :
       AdapterDetect(text, response)

\* the adapter used on its own, no Facade constructed
SpecAdapter == Init /\ [][NextAdapter]_vars

(* ------------------------------------------------------------------ *)
(* Properties                                                          *)
(* ------------------------------------------------------------------ *)
IsDetect == last.op = "detect"

\* the text of the last detect call is a non-empty string
NonEmptyText == ~last.text.none /\ last.text.s # <<>>

\* C1: detect returns a result and never raises, whatever the lexicon, the
\* remote mode, the adapter and the remote outcome; the only call that
\* raises is the constructor on an unreadable or missing lexicon source, and
\* then there is no Facade instance.
C1_DetectNeverRaises ==
  /\ IsDetect => ~last.trace.result.raised /\ ~last.raised
  /\ last.raised => last.op = "init" /\ ~last.readable /\ facade = "load_error"
  /\ facade = "load_error" => last.op = "init" /\ last.raised
  /\ (last.op = "init" /\ ~last.readable) => facade = "load_error"

\* a detect whose moderation response could not be parsed returned a result
C1_Witness ==
  /\ IsDetect /\ last.trace.response.kind = "unparsable"
  /\ ~last.trace.result.raised
  /\ last.trace.result.method = "dual_detection"

\* word occurs in s as a substring, letter case ignored
ContainsCI(s, word) == \E i \in 1..Len(s) : MatchAt(word, s, i)

\* no term of the lexicon occurs in the text of the last detect call
NoTermInText ==
  last.text.none \/ \A w \in sensitive_words : ~ContainsCI(last.text.s, w)

ResultSafe == last.trace.result.is_safe /\ last.trace.result.risk_level = "safe"

\* C2 as stated: for every lexicon, remote mode and remote verdict, a text
\* with no lexicon term as a substring is reported safe with risk level safe.
C2_SafeWithoutTerm == (IsDetect /\ NoTermInText) => ResultSafe

\* the moderation service answered with conclusion code 3 (non-compliant)
RemoteNonCompliant ==
  last.trace.response.kind = "ok" /\ last.trace.response.ctype = 3

\* C2 amended: a text with no lexicon term as a substring is reported safe
\* with risk level safe unless the moderation service was asked and answered
\* with conclusion code 3.
C2_SafeWithoutTermUnlessRemoteUnsafe ==
  (IsDetect /\ NoTermInText /\ ~RemoteNonCompliant) => ResultSafe

\* a term-free text went through both detectors, the remote one answering
\* "uncertain", and came back safe
C2_Witness ==
  /\ IsDetect /\ NonEmptyText /\ NoTermInText /\ sensitive_words # {}
  /\ last.trace.response.kind = "ok" /\ last.trace.response.ctype = 2
  /\ ResultSafe

IsFused == IsDetect /\ last.trace.result.method = "dual_detection"

\* C3: the fused verdict is safe iff both sub-verdicts are, and its risk level
\* is high if either sub-verdict is high, else medium if the fused verdict is
\* unsafe, else safe.
C3_FusionPolicy ==
  IsFused =>
    LET l == last.trace.local
        r == last.trace.remote
        f == last.trace.result
    IN /\ f.is_safe = (l.is_safe /\ r.is_safe)
       /\ f.risk_level =
            IF l.risk_level = "high" \/ r.risk_level = "high" THEN "high"
            ELSE IF ~f.is_safe THEN "medium" ELSE "safe"

\* local unsafe/medium fused with remote safe gave unsafe/medium
C3_Witness ==
  /\ IsFused
  /\ ~last.trace.local.is_safe /\ last.trace.local.risk_level = "medium"
  /\ last.trace.remote.is_safe
  /\ ~last.trace.result.is_safe /\ last.trace.result.risk_level = "medium"

\* the remote call of the last detect was ambiguous or failed: no usable
\* adapter, a transport failure, an unparsable or error response, or a
\* conclusion code other than 1 and 3
RemoteDegraded ==
  \/ ~IsApiAvailable
  \/ api_detector # "valid"
  \/ last.trace.response.kind \in {"transport", "unparsable", "not_object", "error"}
  \/ last.trace.response.kind = "ok" /\ last.trace.response.ctype \notin {1, 3}

\* C4: when the remote call is ambiguous or fails, detect returns the is_safe
\* of the local verdict.
C4_DegradedRemoteKeepsLocal ==
  (IsDetect /\ NonEmptyText /\ enable_api_detection /\ RemoteDegraded) =>
    last.trace.result.is_safe = LocalDetect(word_patterns, last.text).is_safe

\* a locally safe text stayed safe through a transport failure
C4_Witness ==
  /\ IsDetect /\ NonEmptyText /\ enable_api_detection
  /\ last.trace.response.kind = "transport"
  /\ LocalDetect(word_patterns, last.text).is_safe
  /\ last.trace.result.is_safe

InUnitInterval(c) == c.den > 0 /\ 0 <= c.num /\ c.num <= c.den

\* C5: the confidence of every result of detect lies in [0, 1].
C5_ConfidenceInUnitInterval ==
  IsDetect => InUnitInterval(last.trace.result.confidence)

\* a fused result of a capped local confidence 0.95 and a remote 0.98
C5_Witness ==
  /\ IsFused
  /\ FracEq(last.trace.local.confidence, Frac(95, 100))
  /\ FracEq(last.trace.remote.confidence, Frac(98, 100))
  /\ FracEq(last.trace.result.confidence, Frac(971, 1000))

\* C6: for an empty or None text detect returns safe / "safe" / 1.0 with no
\* matched terms, without scanning the lexicon and without a remote call.
C6_EmptyTextShortCircuit ==
  (IsDetect /\ ~NonEmptyText) =>
    /\ last.trace.result.is_safe
    /\ last.trace.result.risk_level = "safe"
    /\ FracEq(last.trace.result.confidence, Frac(1, 1))
    /\ last.trace.result.sensitive_words = {}
    /\ ~last.trace.scanned
    /\ last.trace.requests = 0

\* the empty string was handed to a Facade with a lexicon and a working
\* adapter
C6_Witness ==
  /\ IsDetect /\ last.text = Str(<<>>)
  /\ sensitive_words # {} /\ enable_api_detection /\ api_detector = "valid"
  /\ last.trace.result.is_safe

\* remote mode is on and the credential exchange failed: no adapter is held,
\* or the adapter held has no token
AuthFailed == enable_api_detection /\ api_detector \in {"absent", "none"}

\* C7: with remote mode on and a failed credential exchange, construction
\* still succeeds, is_api_available() is false, and detect on a non-empty
\* text returns exactly the local verdict, method pattern_matching, without
\* a remote call.
C7_AuthFailureFallsBackToLocal ==
  /\ (last.op = "init" /\ last.readable /\ last.enable
        /\ last.auth \in {"rejected", "failure"}) =>
       facade = "live" /\ ~last.raised /\ AuthFailed /\ ~IsApiAvailable
  /\ (facade = "live" /\ AuthFailed) => ~IsApiAvailable
  /\ (IsDetect /\ NonEmptyText /\ AuthFailed) =>
       /\ last.trace.result = LocalDetect(word_patterns, last.text)
       /\ last.trace.result.method = "pattern_matching"
       /\ last.trace.requests = 0

\* an unsafe text was judged by the local matcher alone while the Facade
\* held an adapter whose credential exchange had failed
C7_Witness ==
  /\ IsDetect /\ NonEmptyText /\ enable_api_detection /\ api_detector = "none"
  /\ ~last.trace.result.is_safe
  /\ last.trace.result.method = "pattern_matching"

\* the lexicon terms that occur in the text of the last detect call
TermsInText == { w \in sensitive_words : ContainsCI(last.text.s, w) }

\* C8: the matched terms of the local verdict are exactly the lexicon terms
\* occurring in the text as a case-insensitive substring, each reported once
\* whatever its number of occurrences and their letter case.
C8_MatchedTermsAreLexiconTerms ==
  (IsDetect /\ NonEmptyText) => last.trace.local.sensitive_words = TermsInText

\* C9: detect(t) and detect(t.upper()) return the same is_safe and the same
\* number of matched terms.
C9_UpperCaseSameVerdict ==
  (IsDetect /\ NonEmptyText) =>
    LET upper == Detect(word_patterns, enable_api_detection, api_detector,
                        Str(UpperStr(last.text.s)), last.trace.response).result
    IN /\ upper.is_safe = last.trace.result.is_safe
       /\ Cardinality(upper.sensitive_words)
            = Cardinality(last.trace.result.sensitive_words)

\* C10: add_sensitive_word of an empty term or of a term already present
\* changes neither the lexicon nor the patterns scanned for, and a second
\* add_sensitive_word(w) right after the first leaves both as the first left
\* them.
C10_AddIdempotent ==
  [][ last'.op = "add" =>
        /\ (last'.word = <<>> \/ last'.word \in sensitive_words) =>
             UNCHANGED <<sensitive_words, word_patterns>>
        /\ (last.op = "add" /\ last.word = last'.word) =>
             UNCHANGED <<sensitive_words, word_patterns>>
        /\ (last'.word # <<>>) => last'.word \in sensitive_words' ]_vars

\* add_sensitive_word was called on a term the lexicon already held and the
\* lexicon has the size it had before the call
C10_Witness ==
  /\ last.op = "add" /\ last.word # <<>>
  /\ last.word \in sensitive_words
  /\ last.size_before = Cardinality(sensitive_words)
  /\ Len(word_patterns) = Cardinality(sensitive_words)

\* the results detect may return for text when the patterns are patterns and
\* the remote mode and the adapter are those of the Facade now
ResultsFor(patterns, text) ==
  { Detect(patterns, enable_api_detection, api_detector, text, r).result :
      r \in { o \in Outcomes \cup {NotSent} :
                o = NotSent <=>
                  ~DetectSends(enable_api_detection, api_detector, text) } }

\* the last call is a remove(w) made right after an add(w)
AddThenRemove == last.op = "remove" /\ last.follows_add

\* detect on the text w returns, response for response, what it returned
\* before the add
SameVerdictAsBeforeAdd ==
  \A r \in Outcomes \cup {NotSent} :
    (r = NotSent <=>
       ~DetectSends(enable_api_detection, api_detector, Str(last.word)))
    => Detect(word_patterns, enable_api_detection, api_detector,
              Str(last.word), r).result
       = Detect(last.patterns_before_add, enable_api_detection, api_detector,
                Str(last.word), r).result

\* C11 (as stated): for every lexicon and every word w, after add(w) followed
\* by remove(w), detect on the text w returns the verdict it returned before
\* the add.
C11_AddRemoveRestores == AddThenRemove => SameVerdictAsBeforeAdd

\* C11 (amended): the same for every word w that was not a term of the
\* lexicon before the add (the empty word included); for a term already
\* there the add changes nothing and the remove deletes it.
C11_AddRemoveRestoresNewWord ==
  (AddThenRemove /\ last.word \notin Range(last.patterns_before_add))
  => SameVerdictAsBeforeAdd

\* "b" was added to the lexicon {"a"} and removed again: the text "b" is
\* safe as before
C11_Witness ==
  /\ AddThenRemove /\ last.word = <<"b">>
  /\ Range(last.patterns_before_add) = {<<"a">>}
  /\ last.size_before = 2
  /\ sensitive_words = {<<"a">>}
  /\ \A v \in ResultsFor(word_patterns, Str(<<"b">>)) : v.sensitive_words = {}

\* word occurs in s as a substring, letter for letter
ContainsExact(s, word) ==
  \E i \in 1..Len(s) :
    /\ i + Len(word) - 1 <= Len(s)
    /\ SubSeq(s, i, i + Len(word) - 1) = word

\* the last call added a non-empty word that was not in the lexicon
AddedNewWord ==
  /\ last.op = "add" /\ last.word # <<>>
  /\ last.word \notin Range(last.patterns_before)

\* the last call removed a term of the lexicon
RemovedTerm == last.op = "remove" /\ last.word \in Range(last.patterns_before)

\* after the add: one term more, w among them
AddGrowsLexicon ==
  AddedNewWord =>
    /\ Cardinality(sensitive_words) = last.size_before + 1
    /\ last.word \in sensitive_words

\* after the add: every text containing w is unsafe
AddMakesUnsafe ==
  AddedNewWord =>
    \A text \in LocalTexts :
      (~text.none /\ ContainsExact(text.s, last.word))
      => \A v \in ResultsFor(word_patterns, text) : ~v.is_safe

\* after the add: every text containing w has w among its matched terms
AddReportsWord ==
  AddedNewWord =>
    \A text \in LocalTexts :
      (~text.none /\ ContainsExact(text.s, last.word))
      => \A v \in ResultsFor(word_patterns, text) :
           last.word \in v.sensitive_words

\* after the remove of a term: one term fewer, w not among them, and a text
\* in which no other term of the lexicon occurs is safe for local detection
RemoveTakesEffect ==
  RemovedTerm =>
    /\ Cardinality(sensitive_words) = last.size_before - 1
    /\ last.word \notin sensitive_words
    /\ \A text \in LocalTexts :
         (/\ ~text.none
          /\ \A u \in Range(last.patterns_before) \ {last.word} :
               ~ContainsCI(text.s, u))
         => LocalDetect(word_patterns, text).is_safe

\* the remove of an absent term changes nothing
RemoveAbsentNoOp ==
  (last.op = "remove" /\ last.word \notin Range(last.patterns_before))
  => /\ word_patterns = last.patterns_before
     /\ sensitive_words = Range(last.patterns_before)
     /\ Cardinality(sensitive_words) = last.size_before

\* C12: after add(w) of a non-empty w not in the lexicon, the lexicon has
\* one term more, contains w, and every text containing w is unsafe with w
\* among its matched terms; after remove(w) of a term, the lexicon has one
\* term fewer, does not contain w, and a text whose only lexicon term was w
\* is safe for local detection; the remove of an absent term changes nothing.
C12_MutationsTakeEffect ==
  /\ AddGrowsLexicon
  /\ AddMakesUnsafe
  /\ AddReportsWord
  /\ RemoveTakesEffect
  /\ RemoveAbsentNoOp

IsBatch == last.op = "batch"

\* C13: batch_detect(texts) returns as many results as there are texts, the
\* i-th being what detect(texts[i]) returns in the same Facade state for the
\* response its request received; an item on a failure path (None or empty
\* item, failed remote call) yields a result too and the later items are
\* still processed.
C13_BatchIsDetectPerItem ==
  IsBatch =>
    /\ ~last.raised
    /\ Len(last.results) = Len(last.texts)
    /\ \A i \in DOMAIN last.texts :
         /\ ~last.results[i].result.raised
         /\ last.results[i]
              = Detect(word_patterns, enable_api_detection, api_detector,
                       last.texts[i], last.results[i].response)
         /\ last.results[i].requests = 1
              <=> DetectSends(enable_api_detection, api_detector, last.texts[i])

\* a batch of three whose first item met a network failure and whose second
\* item was None: the third item was still scanned, sent and found unsafe
C13_Witness ==
  /\ IsBatch /\ Len(last.texts) = 3 /\ Len(last.results) = 3
  /\ last.results[1].response.kind = "transport"
  /\ last.texts[2].none /\ last.results[2].result = EmptyResult
  /\ last.results[3].requests = 1
  /\ ~last.results[3].result.is_safe
  /\ last.results[3].result.sensitive_words # {}

IsApiDetect == last.op = "api_detect"

\* the text of the last call is None, empty or blank
BlankText == last.text.none \/ Strip(last.text.s) = <<>>

\* the neutral verdict: safe, risk unknown, confidence 0.0, an error
\* annotation in details
IsNeutral(v) ==
  /\ ~v.raised /\ v.is_safe /\ v.risk_level = "unknown"
  /\ v.confidence.num = 0 /\ v.note = "error"

\* C14: APIDetector.detect never raises; an adapter that is not
\* authenticated returns the neutral verdict without sending a request, and
\* a request that fails at the network level gives the same neutral verdict.
C14_AdapterNeverRaises ==
  IsApiDetect =>
    /\ ~last.raised /\ ~last.trace.result.raised
    /\ api_detector # "valid"
         => IsNeutral(last.trace.result) /\ last.trace.requests = 0
    /\ last.trace.response.kind = "transport"
         => IsNeutral(last.trace.result) /\ last.trace.requests = 1

\* an authenticated adapter whose request failed at the network level
\* returned the neutral verdict
C14_Witness ==
  /\ IsApiDetect /\ api_detector = "valid"
  /\ last.trace.response.kind = "transport"
  /\ last.trace.requests = 1
  /\ IsNeutral(last.trace.result)

\* the verdict safe, risk safe, confidence 1.0
IsSafeCertain(v) ==
  /\ ~v.raised /\ v.is_safe /\ v.risk_level = "safe"
  /\ v.confidence.num = v.confidence.den

\* C15 (as stated): APIDetector.detect on an empty or blank text returns
\* safe, risk safe, confidence 1.0 and sends no request, whether the adapter
\* is authenticated or not.
C15_BlankTextSafeAnyAuth ==
  (IsApiDetect /\ BlankText)
  => IsSafeCertain(last.trace.result) /\ last.trace.requests = 0

\* C15 (amended): on an empty or blank text no request is sent and the
\* verdict is safe; it is safe / risk safe / 1.0 when the adapter holds a
\* token, and the neutral verdict (risk unknown, 0.0) when it holds none,
\* the token being tested first.
C15_BlankTextSafeWhenAuthenticated ==
  (IsApiDetect /\ BlankText)
  => /\ last.trace.requests = 0
     /\ last.trace.response = NotSent
     /\ last.trace.result.is_safe
     /\ api_detector = "valid" => IsSafeCertain(last.trace.result)
     /\ api_detector # "valid" => IsNeutral(last.trace.result)

\* an adapter whose credential exchange failed was handed a blank text and
\* returned the neutral verdict without a request
C15_Witness ==
  /\ IsApiDetect /\ api_detector = "none"
  /\ last.text = Str(<<" ">>)
  /\ last.trace.requests = 0
  /\ last.trace.result.risk_level = "unknown"
  /\ last.trace.result.confidence.num = 0

\* the moderation response of the last call was parsed to the end and
\* carries a conclusion code
ParsedWithCode ==
  /\ IsApiDetect /\ last.trace.requests = 1
  /\ last.trace.response.kind = "ok"
  /\ last.trace.response.data # "number"
  /\ last.trace.response.ctype # 0

\* v is the verdict with this safety, risk level and confidence in hundredths
IsVerdict(v, safe, risk, hundredths) ==
  /\ ~v.raised /\ v.is_safe = safe /\ v.risk_level = risk
  /\ v.confidence.num * 100 = hundredths * v.confidence.den

\* C16: a parsed response with code 1 gives safe / safe / 0.9, code 2 safe /
\* low / 0.6, code 3 unsafe / high / 0.95, or 0.98 exactly when violation
\* entries are present, every other code safe / unknown / 0.0; the adapter
\* returns unsafe only for code 3.
C16_ConclusionCodeMapping ==
  /\ ParsedWithCode =>
       LET code == last.trace.response.ctype
           entries == last.trace.response.data = "entries"
           v == last.trace.result
       IN /\ code = 1 => IsVerdict(v, TRUE, "safe", 90)
          /\ code = 2 => IsVerdict(v, TRUE, "low", 60)
          /\ (code = 3 /\ ~entries) => IsVerdict(v, FALSE, "high", 95)
          /\ (code = 3 /\ entries) => IsVerdict(v, FALSE, "high", 98)
          /\ code \notin {1, 2, 3} => IsVerdict(v, TRUE, "unknown", 0)
  /\ (IsApiDetect /\ ~last.trace.result.is_safe)
       => last.trace.response.kind = "ok" /\ last.trace.response.ctype = 3

\* a response with code 3 and violation entries gave unsafe / high / 0.98
C16_Witness ==
  /\ ParsedWithCode
  /\ last.trace.response.ctype = 3 /\ last.trace.response.data = "entries"
  /\ IsVerdict(last.trace.result, FALSE, "high", 98)

\* the moderation response of the last call is malformed: not parsable, an
\* error response, or an object without a conclusion code
Malformed ==
  /\ IsApiDetect /\ last.trace.requests = 1
  /\ \/ last.trace.response.kind \in {"unparsable", "not_object", "error"}
     \/ last.trace.response.kind = "ok" /\ last.trace.response.ctype = 0

\* C17: every malformed moderation response is handled like a transport
\* failure: the adapter returns the neutral verdict (safe, unknown, 0.0).
C17_MalformedIsNeutral == Malformed => IsNeutral(last.trace.result)

\* the tier for count matched terms of summed length S in a text of length
\* T, the density S / T compared in integers
ExpectedRisk(count, S, T) ==
  IF count = 0 THEN "safe"
  ELSE IF count >= 5 \/ 10 * S > T THEN "high"
  ELSE IF count >= 2 \/ 20 * S > T THEN "medium"
  ELSE "low"

Min(a, b) == IF a <= b THEN a ELSE b

\* c is min(cap, base + k * S / T), cap and base in hundredths
IsCappedConfidence(c, cap, base, k, S, T) ==
  c.num * 100 * T = Min(cap * T, base * T + 100 * k * S) * c.den

SetApiStep(enable) == last'.op = "set_api" /\ last'.enable = enable

\* C19: set_api_detection(True) constructs an adapter, with one credential
\* exchange, exactly when the Facade holds no adapter; an adapter already
\* held is kept and no credential exchange happens.
C19_LazyAdapterConstruction ==
  [][ SetApiStep(TRUE) =>
        /\ enable_api_detection'
        /\ api_detector = "absent"
             => /\ last'.exchanges = 1
                /\ api_detector' # "absent"
                /\ api_detector' = FetchToken(last'.auth)
        /\ api_detector # "absent"
             => /\ last'.exchanges = 0
                /\ last'.auth = "not_asked"
                /\ api_detector' = api_detector ]_vars

\* set_api_detection(True) found no adapter and constructed one whose
\* credential exchange succeeded
C19_Witness ==
  /\ last.op = "set_api" /\ last.enable
  /\ last.exchanges = 1 /\ last.auth = "token"
  /\ api_detector = "valid" /\ enable_api_detection

\* set_api_detection(False) changes the flag only
DisableFrame ==
  SetApiStep(FALSE) =>
    /\ ~enable_api_detection'
    /\ last'.exchanges = 0
    /\ UNCHANGED <<facade, api_detector, sensitive_words, word_patterns>>

\* set_api_detection(True) after the flag was off reuses the adapter held
ReenableReuses ==
  (SetApiStep(TRUE) /\ ~enable_api_detection /\ api_detector # "absent")
  => /\ api_detector' = api_detector
     /\ last'.exchanges = 0

\* the step is a detect made while the flag is off
DetectWhileOff == last'.op = "detect" /\ ~enable_api_detection'

\* the detect made no remote call and returned the verdict of the local
\* matcher, marked pattern_matching
LocalOnly ==
  /\ last'.trace.requests = 0
  /\ last'.trace.remote = NoVerdict
  /\ last'.trace.result = LocalDetect(word_patterns', last'.text)
  /\ last'.trace.result.method = "pattern_matching"

\* C20 (as stated): set_api_detection(False) changes only the flag (adapter,
\* its token and the lexicon are unchanged); while the flag is off every
\* detect makes no remote call and returns the local-only verdict with
\* detection_method pattern_matching; a later set_api_detection(True)
\* reuses the adapter.
C20_DisableChangesFlagOnly ==
  [][ /\ DisableFrame
      /\ ReenableReuses
      /\ DetectWhileOff => LocalOnly ]_vars

\* C20 (amended): the same, the detect being one on a non-empty text; on
\* None or the empty text detect makes no remote call either and returns
\* the empty-text result, which carries no detection_method.
C20_DisableChangesFlagOnlyNonEmpty ==
  [][ /\ DisableFrame
      /\ ReenableReuses
      /\ (DetectWhileOff /\ ~last'.text.none /\ last'.text.s # <<>>)
           => LocalOnly
      /\ (DetectWhileOff /\ (last'.text.none \/ last'.text.s = <<>>))
           => /\ last'.trace.requests = 0
              /\ last'.trace.result = EmptyResult
              /\ last'.trace.result.method = "absent" ]_vars

\* with the flag turned off and an authenticated adapter still held, a
\* detect on a text with a lexicon term made no request and returned the
\* local verdict
C20_Witness ==
  /\ IsDetect /\ NonEmptyText
  /\ ~enable_api_detection /\ api_detector = "valid"
  /\ last.trace.requests = 0
  /\ last.trace.result.method = "pattern_matching"
  /\ ~last.trace.result.is_safe

\* the remote service contributed a verdict to the last detect: a
\* moderation response was received and parsed to the end
RemoteContributed ==
  /\ last.trace.requests = 1
  /\ last.trace.remote.method = "api"

\* C21: the result of detect (on a non-empty text) is marked dual_detection
\* if and only if the local matcher and the remote service both contributed
\* a verdict; when the remote path produced no verdict (adapter unavailable,
\* transport failure, unparsable or error response) it is marked
\* pattern_matching.
C21_DualMethodIffBothContributed ==
  (IsDetect /\ NonEmptyText) =>
    /\ last.trace.result.method = "dual_detection"
         <=> (last.trace.scanned /\ RemoteContributed)
    /\ ~RemoteContributed => last.trace.result.method = "pattern_matching"

\* C22: in every local-only result, is_safe implies risk_level safe, and
\* risk_level safe implies that no term was matched; an unsafe local result
\* has at least one matched term and a risk level low, medium or high.
C22_LocalResultConsistent ==
  IsDetect =>
    LET v == last.trace.result
    IN /\ v.is_safe => v.risk_level = "safe"
       /\ v.risk_level = "safe" => v.sensitive_words = {}
       /\ ~v.is_safe => /\ v.sensitive_words # {}
                        /\ v.risk_level \in {"low", "medium", "high"}
       /\ NonEmptyText => v = last.trace.local /\ v.method = "pattern_matching"

\* one term matched in a text of 20 characters: the local-only result is
\* unsafe with risk level low
C22_Witness ==
  /\ IsDetect /\ Len(last.text.s) = 20
  /\ last.trace.result.method = "pattern_matching"
  /\ ~last.trace.result.is_safe
  /\ Cardinality(last.trace.result.sensitive_words) = 1
  /\ last.trace.result.risk_level = "low"

\* C23: an adapter performs its credential exchange once, at construction;
\* a detect call, whatever its outcome, performs no credential exchange and
\* leaves the token alone, so an adapter whose authentication failed stays
\* unavailable and an authenticated one stays available.
C23_AuthenticatesOnceAtConstruction ==
  [][ /\ last'.op = "api_init"
           => /\ last'.exchanges = 1
              /\ api_detector' = FetchToken(last'.auth)
      /\ last'.op = "api_detect"
           => /\ last'.exchanges = 0
              /\ api_detector' = api_detector
              /\ IsAvailable(api_detector') <=> IsAvailable(api_detector) ]_vars

\* an adapter whose credential exchange failed was asked to detect a
\* non-blank text: it is still unavailable and made no exchange
C23_Witness ==
  /\ IsApiDetect /\ ~BlankText
  /\ api_detector = "none" /\ ~IsAvailable(api_detector)
  /\ last.exchanges = 0 /\ last.trace.requests = 0

\* the moderation requests made for the items of a batch
RECURSIVE SumRequests(_)
SumRequests(results) ==
  IF results = <<>> THEN 0
  ELSE Head(results).requests + SumRequests(Tail(results))

\* detect(text) has no reason to go to the network: the text is None or
\* empty, the remote mode is off, or the adapter is absent or unavailable
NoRemotePath(text) ==
  \/ text.none \/ text.s = <<>>
  \/ ~enable_api_detection
  \/ api_detector = "absent"
  \/ ~IsAvailable(api_detector)

\* C24: a detect call makes at most one moderation request, and none when
\* the text is empty, the remote mode is off or the adapter is absent or
\* unavailable; batch_detect over n texts makes at most n requests, at most
\* one per item, in the order of the items.
C24_AtMostOneRoundTrip ==
  /\ IsDetect =>
       /\ last.trace.requests \in {0, 1}
       /\ NoRemotePath(last.text) => last.trace.requests = 0
       /\ last.trace.requests = 0 <=> last.trace.response = NotSent
       /\ last.exchanges = 0
  /\ IsBatch =>
       /\ SumRequests(last.results) <= Len(last.texts)
       /\ last.exchanges = 0
       /\ \A i \in DOMAIN last.results :
            /\ last.results[i].requests \in {0, 1}
            /\ NoRemotePath(last.texts[i]) => last.results[i].requests = 0
            /\ last.results[i].requests = 0
                 <=> last.results[i].response = NotSent

\* a batch of three texts made two requests: none for the None item, one
\* for each of the others, the first of which failed
C24_Witness ==
  /\ IsBatch /\ Len(last.texts) = 3
  /\ SumRequests(last.results) = 2
  /\ last.results[1].requests = 1
  /\ last.results[1].response.kind = "transport"
  /\ last.results[2].requests = 0
  /\ last.results[3].requests = 1

\* the calls that are to leave the lexicon alone
ReadOnlyCalls ==
  { "detect", "batch", "is_safe_for_llm", "get_sensitive_words",
    "clear_snapshot", "set_api", "is_api_available", "get_detection_method" }

\* C25: after construction the lexicon changes only through
\* add_sensitive_word and remove_sensitive_word; detect, batch_detect,
\* is_safe_for_llm, get_sensitive_words, set_api_detection, is_api_available
\* and get_detection_method leave it unchanged, and so does changing the
\* list get_sensitive_words returned.
C25_LexiconChangesOnlyByAddRemove ==
  [][ /\ last'.op \in ReadOnlyCalls
           => UNCHANGED <<sensitive_words, word_patterns>>
      /\ (facade = "live" /\ sensitive_words' # sensitive_words)
           => last'.op \in {"add", "remove"}
      /\ last'.op = "get_sensitive_words"
           => Range(last'.snapshot) = sensitive_words
              /\ Len(last'.snapshot) = Cardinality(sensitive_words) ]_vars

\* the caller emptied the list get_sensitive_words had returned: the
\* lexicon still has its two terms
C25_Witness ==
  /\ last.op = "clear_snapshot" /\ last.snapshot = <<>>
  /\ last.size_before = 2
  /\ Cardinality(sensitive_words) = 2
  /\ Range(word_patterns) = sensitive_words

\* C26: for a fixed number of matched terms the confidence of the risk
\* scorer does not decrease when the density grows, the tier boundaries at
\* density 0.05 and 0.10 included: of two calls with the same count, the one
\* with the larger density returns at least the confidence of the other.
C26_ConfidenceMonotoneInDensity ==
  [][ (last.op = "score" /\ last'.op = "score") =>
        LET v == last.trace.result
            w == last'.trace.result
        IN (/\ Cardinality(v.sensitive_words) = Cardinality(w.sensitive_words)
            /\ SumLen(v.sensitive_words) * Len(last'.text.s)
                 <= SumLen(w.sensitive_words) * Len(last.text.s))
           => FracLeq(v.confidence, w.confidence) ]_vars

\* one matched string of one character in a text of 19 characters: the
\* density is just above 0.05, the tier medium and the confidence above the
\* 0.70 that the low tier reaches at density 0.05
C26_Witness ==
  /\ last.op = "score" /\ Len(last.text.s) = 19
  /\ last.trace.result.sensitive_words = {<<"a">>}
  /\ last.trace.result.risk_level = "medium"
  /\ FracLeq(Frac(70, 100), last.trace.result.confidence)
  /\ ~FracLeq(last.trace.result.confidence, Frac(70, 100))

\* C27: after loading (a source with repeated lines included) and after any
\* sequence of add_sensitive_word and remove_sensitive_word calls, the terms
\* the compiled patterns scan for are, as a set, the terms
\* get_sensitive_words reports, and the empty string is not among them.
C27_PatternsMatchLexicon ==
  /\ Range(word_patterns) = sensitive_words
  /\ <<>> \notin sensitive_words
  /\ \A i \in DOMAIN word_patterns : word_patterns[i] # <<>>
  /\ last.op = "get_sensitive_words"
       => Range(last.snapshot) = Range(word_patterns)

\* a Facade whose source holds the line "A" twice: two patterns were
\* compiled, both for the one term get_sensitive_words reports
C27_Witness ==
  /\ last.op = "get_sensitive_words"
  /\ last.snapshot = << <<"A">> >>
  /\ word_patterns = << <<"A">>, <<"A">> >>
  /\ sensitive_words = {<<"A">>}

\* C28: every fused result detect returns is safe if and only if its risk
\* level is safe, and its risk level is safe, medium or high: a local low
\* and a remote low or unknown never show as the fused risk level, and no
\* fused result is safe and high at once.
C28_FusedRiskLevels ==
  IsFused =>
    /\ last.trace.result.is_safe <=> last.trace.result.risk_level = "safe"
    /\ last.trace.result.risk_level \in {"safe", "medium", "high"}
    /\ ~(last.trace.result.is_safe /\ last.trace.result.risk_level = "high")

\* a local verdict unsafe / low fused with a remote verdict safe / low
\* (code 2) gave unsafe / medium
C28_Witness ==
  /\ IsFused
  /\ last.trace.local.risk_level = "low"
  /\ last.trace.remote.risk_level = "low" /\ last.trace.remote.is_safe
  /\ ~last.trace.result.is_safe
  /\ last.trace.result.risk_level = "medium"

\* the step is a set_api_detection(True) that constructed an adapter whose
\* credential exchange failed
ConstructsFailedAdapter ==
  /\ SetApiStep(TRUE) /\ last'.exchanges = 1
  /\ last'.auth \in {"rejected", "failure"}

\* C29: an adapter constructed by set_api_detection(True) whose
\* authentication failed stays held by the Facade, and is_api_available() is
\* false, through every later detect, toggle and lexicon operation; no later
\* set_api_detection(True) makes a credential exchange.
C29_FailedAdapterIsKept ==
  [][ /\ ConstructsFailedAdapter => api_detector' = "none"
      /\ api_detector = "none"
           => /\ api_detector' = "none"
              /\ last'.exchanges = 0
      /\ api_detector' = "none"
           => /\ ~IsAvailable(api_detector')
              /\ last'.op = "is_api_available" => last'.returned = "false"
              /\ last'.op = "get_detection_method" => last'.returned = "local"
              /\ last'.op \in {"detect", "is_safe_for_llm"}
                   => last'.trace.requests = 0 ]_vars

\* with the failed adapter held, a later set_api_detection(True) made no
\* credential exchange and the adapter is still the failed one
C29_Witness ==
  /\ last.op = "set_api" /\ last.enable /\ enable_api_detection
  /\ last.exchanges = 0 /\ last.auth = "not_asked"
  /\ api_detector = "none"

====
